---- MODULE Spec2Model ----
(***************************************************************************)
(* Model of pyfeng/heston.py: HestonABC.var_mv, HestonABC.avgvar_mv,       *)
(* HestonABC.fair_strike_var and HestonUncorrBallRoma1994.price.           *)
(*                                                                         *)
(* Numbers.  The code computes in IEEE-754 binary floating point (numpy    *)
(* float64).  The model keeps the structure of that arithmetic in a small  *)
(* binary floating-point format: a finite number is an integer count of    *)
(* 1/Unit steps whose magnitude has at most MantBits significant bits,     *)
(* every operation rounds its exact result to the nearest such number      *)
(* (ties to even), and the special values NaN, +Inf and -Inf behave as in  *)
(* IEEE-754.  The exponent range is not bounded above (no overflow to Inf; *)
(* Inf arises from division by zero only) and zero carries no sign.        *)
(*                                                                         *)
(* Python scalars and numpy scalars.  np.exp returns a numpy float64, and  *)
(* numpy division by zero yields Inf/NaN (with a warning), while a         *)
(* division of two plain Python floats by zero raises ZeroDivisionError.   *)
(* The model parameters are plain Python floats; every call carries a flag *)
(* np telling whether its numeric arguments are numpy scalars.             *)
(***************************************************************************)
EXTENDS Integers, Sequences, FiniteSets, TLC

\* ------------------------------------------------------------------ bounds
\* log2 of the number of representable steps per unit (Unit = 2^UnitBits)
UnitBits == 3
\* significant bits of a finite number
MantBits == 4
\* largest approximation order the model constructs
MaxOrder == 3

RECURSIVE Pow2(_)
Pow2(e) == IF e = 0 THEN 1 ELSE 2 * Pow2(e - 1)

Unit == Pow2(UnitBits)

Abs(n) == IF n < 0 THEN -n ELSE n

\* -------------------------------------------------------- number format
Fin(n) == [k |-> "fin", v |-> n]
NaN    == [k |-> "nan", v |-> 0]
PInf   == [k |-> "inf", v |-> 1]
NInf   == [k |-> "inf", v |-> -1]
\* Python's None (the absent monitoring frequency)
None   == [k |-> "none", v |-> 0]

IsFin(x)  == x.k = "fin"
IsNaN(x)  == x.k = "nan"
IsInf(x)  == x.k = "inf"
IsZero(x) == x.k = "fin" /\ x.v = 0
\* sign of a non-NaN number: -1, 0 or 1
Sgn(x) == IF x.v > 0 THEN 1 ELSE IF x.v < 0 THEN -1 ELSE 0
InfOf(s) == IF s < 0 THEN NInf ELSE PInf

\* the spacing of representable numbers around magnitude q
\* magnitudes below MantLimit steps are all representable
MantLimit == Pow2(MantBits)

RECURSIVE SpacingFrom(_, _)
SpacingFrom(q, s) == IF q < MantLimit * s THEN s ELSE SpacingFrom(q, 2 * s)

\* num/den (num >= 0, den > 0) rounded to the nearest representable number,
\* ties to even
RoundPos(num, den) ==
    LET q == num \div den
        s == SpacingFrom(q, 1)
        d == den * s
        m == num \div d
        r == num - m * d
    IN  IF 2 * r < d THEN m * s
        ELSE IF 2 * r > d THEN (m + 1) * s
        ELSE IF m % 2 = 0 THEN m * s ELSE (m + 1) * s

RndQ(num, den) ==
    LET n == IF den < 0 THEN -num ELSE num
        d == Abs(den)
    IN  IF n >= 0 THEN RoundPos(n, d) ELSE -RoundPos(-n, d)

\* an integer count of steps is representable when rounding leaves it alone
Representable(n) == RndQ(n, 1) = n

FNeg(x) == IF IsNaN(x) THEN NaN ELSE [k |-> x.k, v |-> -x.v]

FAdd(x, y) ==
    IF IsNaN(x) \/ IsNaN(y) THEN NaN
    ELSE IF IsInf(x) /\ IsInf(y) THEN (IF x.v = y.v THEN x ELSE NaN)
    ELSE IF IsInf(x) THEN x
    ELSE IF IsInf(y) THEN y
    ELSE Fin(RndQ(x.v + y.v, 1))

FSub(x, y) == FAdd(x, FNeg(y))

FMul(x, y) ==
    IF IsNaN(x) \/ IsNaN(y) THEN NaN
    ELSE IF IsInf(x) \/ IsInf(y)
         THEN (IF Sgn(x) = 0 \/ Sgn(y) = 0 THEN NaN ELSE InfOf(Sgn(x) * Sgn(y)))
    ELSE Fin(RndQ(x.v * y.v, Unit))

\* numpy division: a zero divisor yields Inf or NaN, never an exception
FDiv(x, y) ==
    IF IsNaN(x) \/ IsNaN(y) THEN NaN
    ELSE IF IsInf(x) THEN (IF IsInf(y) THEN NaN
                           ELSE InfOf(IF Sgn(y) = 0 THEN Sgn(x) ELSE Sgn(x) * Sgn(y)))
    ELSE IF IsInf(y) THEN Fin(0)
    ELSE IF y.v = 0 THEN (IF x.v = 0 THEN NaN ELSE InfOf(Sgn(x)))
    ELSE Fin(RndQ(x.v * Unit, y.v))

\* sum of the exponential series of x/Unit (x >= 0), scaled by sc
RECURSIVE ExpSeries(_, _, _, _, _)
ExpSeries(x, sc, j, term, acc) ==
    IF term = 0 THEN acc
    ELSE ExpSeries(x, sc, j + 1, (term * x) \div (Unit * j), acc + term)

\* np.exp
FExp(x) ==
    IF IsNaN(x) THEN NaN
    ELSE IF IsInf(x) THEN (IF x.v > 0 THEN PInf ELSE Fin(0))
    ELSE LET sc == 100000
             e  == ExpSeries(Abs(x.v), sc, 1, sc, 0)
         IN  IF x.v >= 0 THEN Fin(RoundPos(e * Unit, sc))
             ELSE Fin(RoundPos(sc * Unit, e))

\* np.sqrt: NaN below zero, else the representable number nearest the root
FSqrt(x) ==
    IF IsNaN(x) THEN NaN
    ELSE IF IsInf(x) THEN (IF x.v > 0 THEN PInf ELSE NaN)
    ELSE IF x.v < 0 THEN NaN
    ELSE LET sq   == x.v * Unit
             reps == {n \in 0..(x.v + Unit) : Representable(n)}
             lo   == CHOOSE n \in reps : n * n <= sq
                        /\ \A m \in reps : m * m <= sq => m <= n
             ups  == {n \in reps : n > lo}
             hi   == IF ups = {} THEN lo
                     ELSE CHOOSE n \in ups : \A m \in ups : n <= m
         IN  IF 4 * sq < (lo + hi) * (lo + hi) THEN Fin(lo)
             ELSE IF 4 * sq > (lo + hi) * (lo + hi) THEN Fin(hi)
             ELSE IF (lo \div SpacingFrom(lo, 1)) % 2 = 0 THEN Fin(lo) ELSE Fin(hi)

\* the literals of the source
One      == Fin(Unit)
Two      == Fin(2 * Unit)
Four     == Fin(4 * Unit)
Eight    == Fin(8 * Unit)
Half     == Fin(Unit \div 2)
TwoHalf  == Fin((5 * Unit) \div 2)

\* np.isclose(a, b) with numpy's default rtol = 1e-05 and atol = 1e-08:
\* |a - b| <= atol + rtol*|b|, in steps of 1/Unit
IsClose(a, b) ==
    IF IsNaN(a) \/ IsNaN(b) THEN FALSE
    ELSE IF IsInf(a) \/ IsInf(b) THEN a = b
    ELSE Abs(a.v - b.v) <= (Unit + 1000 * Abs(b.v)) \div 100000000

\* ------------------------------------------------------ how a call ends
\* a call returns the tuple ret, or raises the exception err at a source line;
\* arg is the value the exception's message names; events lists, in order,
\* what the call did that its caller or its collaborators can observe
Returned(vals, ev) ==
    [err |-> "none", arg |-> None, line |-> 0, ret |-> vals, events |-> ev]
Raised(e, a, l, ev) ==
    [err |-> e, arg |-> a, line |-> l, ret |-> <<>>, events |-> ev]

\* ------------------------------------------------------------ HestonABC
\* var_mv with the factor (1 - expo) of the variance left out
var_mv_noscale(p, var0, dt) ==
    LET expo == FExp(FMul(FNeg(p.mr), dt))
        m    == FAdd(p.theta, FMul(FSub(var0, p.theta), expo))
        s2a  == FAdd(FMul(var0, expo),
                     FDiv(FMul(p.theta, FSub(One, expo)), Two))
        s2   == FMul(s2a, FDiv(FMul(p.vov, p.vov), p.mr))
    IN  Returned(<<m, s2>>, <<"return">>)

var_mv(p, var0, dt) ==
    LET expo == FExp(FMul(FNeg(p.mr), dt))
        m    == FAdd(p.theta, FMul(FSub(var0, p.theta), expo))
        s2a  == FAdd(FMul(var0, expo),
                     FDiv(FMul(p.theta, FSub(One, expo)), Two))
        s2   == FMul(s2a, FDiv(FMul(FMul(p.vov, p.vov), FSub(One, expo)), p.mr))
    IN  Returned(<<m, s2>>, <<"return">>)

avgvar_mv(p, var0, texp, np) ==
    LET mr_t == FMul(p.mr, texp)
        e_mr == FExp(FNeg(mr_t))
        x0   == FSub(var0, p.theta)
        mean == FAdd(p.theta, FDiv(FMul(x0, FSub(One, e_mr)), mr_t))
        var1 == FAdd(FSub(p.theta, FMul(FMul(Two, x0), e_mr)),
                     FDiv(FMul(FSub(One, e_mr),
                               FAdd(FSub(var0, FMul(TwoHalf, p.theta)),
                                    FMul(FSub(var0, FDiv(p.theta, Two)), e_mr))),
                          mr_t))
        q    == FDiv(p.vov, mr_t)
        var  == FMul(var1, FMul(FMul(q, q), texp))
    IN  \* line 47: self.vov/mr_t divides two Python floats unless texp is numpy
        IF ~np /\ IsZero(mr_t)
        THEN Raised("ZeroDivisionError", None, 47, <<"raise">>)
        ELSE Returned(<<mean, var>>, <<"return">>)

\* fair_strike_cont with the decay factor e_mr left out of the ratio
fair_strike_cont_noexp(p, texp) ==
    LET var0 == p.sigma
        mr_t == FMul(p.mr, texp)
        x0   == FSub(var0, p.theta)
    IN  FAdd(p.theta, FDiv(x0, mr_t))

\* lines 62-68: the continuously monitored strike
fair_strike_cont(p, texp) ==
    LET var0 == p.sigma
        mr_t == FMul(p.mr, texp)
        e_mr == FExp(FNeg(mr_t))
        x0   == FSub(var0, p.theta)
    IN  FAdd(p.theta, FDiv(FMul(x0, FSub(One, e_mr)), mr_t))

fair_strike_var(p, texp, aa, np) ==
    LET var0   == p.sigma
        mr_t   == FMul(p.mr, texp)
        e_mr   == FExp(FNeg(mr_t))
        x0     == FSub(var0, p.theta)
        strike == fair_strike_cont(p, texp)
    IN  IF aa = None THEN Returned(<<strike>>, <<"return">>)
        \* line 72: self.mr/aa divides two Python numbers unless aa is numpy
        ELSE IF ~np /\ IsZero(aa)
        THEN Raised("ZeroDivisionError", None, 72, <<"raise">>)
        ELSE
        LET mr_a    == FDiv(p.mr, aa)
            e_mr_a  == FExp(FNeg(mr_a))
            tmp     == FSub(p.theta, FMul(Two, p.intr))
            strike1 == FAdd(strike,
                         FMul(FDiv(tmp, FMul(Four, aa)),
                              FAdd(tmp, FDiv(FMul(FMul(Two, x0), FSub(One, e_mr)),
                                             mr_t))))
        IN  \* line 78: self.vov / self.mr divides two Python floats
            IF IsZero(p.mr)
            THEN Raised("ZeroDivisionError", None, 78, <<"raise">>)
            ELSE
            LET tmp2    == FDiv(p.vov, p.mr)
                strike2 == FAdd(strike1,
                             FMul(FMul(FMul(p.theta, tmp2),
                                       FSub(FDiv(tmp2, Four), p.rho)),
                                  FSub(One, FDiv(FSub(One, e_mr_a), mr_a))))
                strike3 == FAdd(strike2,
                             FMul(FDiv(FMul(FMul(FMul(x0, tmp2),
                                                 FSub(FDiv(tmp2, Two), p.rho)),
                                            FSub(One, e_mr)),
                                       mr_t),
                                  FAdd(One, FDiv(mr_a, FSub(One, e_mr_a)))))
                a       == FAdd(FMul(FMul(tmp2, tmp2),
                                     FSub(p.mr, FMul(Two, var0))),
                                FDiv(FMul(Two, FMul(x0, x0)), p.mr))
                strike4 == FSub(strike3,
                             FDiv(FMul(FDiv(FMul(a, FSub(One, FMul(e_mr, e_mr))),
                                            FMul(Eight, mr_t)),
                                       FSub(One, e_mr_a)),
                                  FAdd(One, e_mr_a)))
            IN  Returned(<<strike4>>, <<"return">>)

\* ------------------------------------------------------------- bsm.Bsm
\* the flat-volatility pricer, as a stub that answers with fixed values
Bsm(sigma, intr, divr, stubPrice, stubD2) ==
    [sigma |-> sigma, intr |-> intr, divr |-> divr,
     stubPrice |-> stubPrice, stubD2 |-> stubD2]
Bsm_price(m_bs, strike, spot, texp, cp) == m_bs.stubPrice
Bsm_d2_var(m_bs, strike, spot, texp, cp) == m_bs.stubD2

\* --------------------------------------------- HestonUncorrBallRoma1994
\* price_diag with a tolerance of one half in place of np.isclose's
price_diag_wide(p) ==
    IF IsFin(p.rho) /\ Abs(p.rho.v) <= Unit \div 2 THEN <<>> ELSE <<"print">>

\* lines 98-99: the diagnostic about the ignored correlation
price_diag(p) == IF ~IsClose(p.rho, Fin(0)) THEN <<"print">> ELSE <<>>

\* price_moments started from a correlation-adjusted variance
price_moments_rho(p, texp, np) ==
    avgvar_mv(p, FMul(p.sigma, FSub(One, FMul(p.rho, p.rho))), texp, np)

\* line 101: the moments of the average variance
price_moments(p, texp, np) == avgvar_mv(p, p.sigma, texp, np)

\* price_order with the factor 0.5 of the second-order term left out
price_order_nohalf(p, m_bs, price0, var, strike, spot, texp, cp, ev) ==
    IF p.order = 2
    THEN Returned(<<FAdd(price0,
                         FMul(var, Bsm_d2_var(m_bs, strike, spot, texp, cp)))>>,
                  ev \o <<"Bsm.d2_var", "return">>)
    ELSE IF p.order > 2
    THEN Raised("ValueError", Fin(p.order * Unit), 109, ev \o <<"raise">>)
    ELSE Returned(<<price0>>, ev \o <<"return">>)

\* price_order rejecting only the orders above 3
price_order_late(p, m_bs, price0, var, strike, spot, texp, cp, ev) ==
    IF p.order = 2
    THEN Returned(<<FAdd(price0,
                         FMul(FMul(Half, var),
                              Bsm_d2_var(m_bs, strike, spot, texp, cp)))>>,
                  ev \o <<"Bsm.d2_var", "return">>)
    ELSE IF p.order > 3
    THEN Raised("ValueError", Fin(p.order * Unit), 109, ev \o <<"raise">>)
    ELSE Returned(<<price0>>, ev \o <<"return">>)

\* price_order adding the second-order term from order 1 on
price_order_from1(p, m_bs, price0, var, strike, spot, texp, cp, ev) ==
    IF p.order >= 1 /\ p.order <= 2
    THEN Returned(<<FAdd(price0,
                         FMul(FMul(Half, var),
                              Bsm_d2_var(m_bs, strike, spot, texp, cp)))>>,
                  ev \o <<"Bsm.d2_var", "return">>)
    ELSE IF p.order > 2
    THEN Raised("ValueError", Fin(p.order * Unit), 109, ev \o <<"raise">>)
    ELSE Returned(<<price0>>, ev \o <<"return">>)

\* lines 106-111: the correction the approximation order selects
price_order(p, m_bs, price0, var, strike, spot, texp, cp, ev) ==
    IF p.order = 2
    THEN Returned(<<FAdd(price0,
                         FMul(FMul(Half, var),
                              Bsm_d2_var(m_bs, strike, spot, texp, cp)))>>,
                  ev \o <<"Bsm.d2_var", "return">>)
    ELSE IF p.order > 2
    THEN Raised("ValueError", Fin(p.order * Unit), 109, ev \o <<"raise">>)
    ELSE Returned(<<price0>>, ev \o <<"return">>)

price(p, strike, spot, texp, cp, np, stubPrice, stubD2) ==
    LET diag == price_diag(p)
        mv   == price_moments(p, texp, np)
    IN  IF mv.err # "none"
        THEN Raised(mv.err, mv.arg, mv.line, diag \o <<"avgvar_mv", "raise">>)
        ELSE
        LET avgvar == mv.ret[1]
            var    == mv.ret[2]
            m_bs   == Bsm(FSqrt(avgvar), p.intr, p.divr, stubPrice, stubD2)
            price0 == Bsm_price(m_bs, strike, spot, texp, cp)
            ev     == diag \o <<"avgvar_mv", "Bsm", "Bsm.price">>
        IN  price_order(p, m_bs, price0, var, strike, spot, texp, cp, ev)

\* ---------------------------------------------------------------- inputs
MrSet     == {Fin(-Unit), Fin(0), Fin(Unit), Fin(2 * Unit)}
ThetaSet  == {Fin(Unit \div 2), TwoHalf}
VovSet    == {Fin(0), Fin(Unit)}
RhoSet    == {Fin(0), Fin(-(Unit \div 2))}
IntrSet   == {Fin(0), Fin(Unit \div 4)}
DivrSet   == {Fin(0)}
SigmaSet  == {Fin(1), Fin(Unit)}
Var0Set   == {Fin(0), Fin(1), Fin(Unit)}
DtSet     == {Fin(0), Fin(Unit)}
TexpSet   == {Fin(-Unit), Fin(0), Fin(Unit \div 2), Fin(Unit)}
AaSet     == {None, Fin(0), Fin(Unit), Fin(2 * Unit)}
StrikeSet == {Fin(Unit)}
SpotSet   == {Fin(Unit)}
CpSet     == {Fin(Unit), Fin(-Unit)}
StubPriceSet == {Fin(3), Fin(Unit)}
StubD2Set    == {Fin(-Unit), Fin(2 * Unit)}

Params == [mr : MrSet, theta : ThetaSet, vov : VovSet, rho : RhoSet,
           intr : IntrSet, divr : DivrSet, sigma : SigmaSet,
           order : 0..MaxOrder]

\* ----------------------------------------------------------------- state
\* self: the model object's parameters; last: the latest call and how it ended
VARIABLES self, last
vars == <<self, last>>

NoCall == [op |-> "none", args |-> <<>>, np |-> FALSE,
           out |-> Returned(<<>>, <<>>)]

Init == self \in Params /\ last = NoCall

\* the outcome of call c on the object with parameters p
Outcome(p, c) ==
    CASE c.op = "var_mv" -> var_mv(p, c.args[1], c.args[2])
      [] c.op = "avgvar_mv" -> avgvar_mv(p, c.args[1], c.args[2], c.np)
      [] c.op = "fair_strike_var" -> fair_strike_var(p, c.args[1], c.args[2], c.np)
      [] c.op = "price" -> price(p, c.args[1], c.args[2], c.args[3], c.args[4],
                                 c.np, c.args[5], c.args[6])
      [] OTHER -> NoCall.out

\* Calls are synchronous: the caller takes the outcome of one call before it
\* makes the next.
CallVarMv ==
    \E var0 \in Var0Set, dt \in DtSet :
        /\ last = NoCall
        /\ last' = [op |-> "var_mv", args |-> <<var0, dt>>, np |-> FALSE,
                    out |-> var_mv(self, var0, dt)]
        /\ UNCHANGED self

CallAvgvarMv ==
    \E var0 \in Var0Set, texp \in TexpSet, np \in BOOLEAN :
        /\ last = NoCall
        /\ last' = [op |-> "avgvar_mv", args |-> <<var0, texp>>, np |-> np,
                    out |-> avgvar_mv(self, var0, texp, np)]
        /\ UNCHANGED self

CallFairStrikeVar ==
    \E texp \in TexpSet, aa \in AaSet, np \in BOOLEAN :
        /\ last = NoCall
        /\ last' = [op |-> "fair_strike_var", args |-> <<texp, aa>>, np |-> np,
                    out |-> fair_strike_var(self, texp, aa, np)]
        /\ UNCHANGED self

\* CallPrice keeping the matched average variance on the object
CallPrice_store ==
    \E strike \in StrikeSet, spot \in SpotSet, texp \in TexpSet, cp \in CpSet,
       np \in BOOLEAN, sp \in StubPriceSet, sd \in StubD2Set :
        /\ last = NoCall
        /\ last' = [op |-> "price",
                    args |-> <<strike, spot, texp, cp, sp, sd>>,
                    np |-> np,
                    out |-> price(self, strike, spot, texp, cp, np, sp, sd)]
        /\ self' = [self EXCEPT !.sigma =
                       LET mv == price_moments(self, texp, np)
                       IN  IF mv.err = "none" THEN mv.ret[1] ELSE @]

CallPrice ==
    \E strike \in StrikeSet, spot \in SpotSet, texp \in TexpSet, cp \in CpSet,
       np \in BOOLEAN, sp \in StubPriceSet, sd \in StubD2Set :
        /\ last = NoCall
        /\ last' = [op |-> "price",
                    args |-> <<strike, spot, texp, cp, sp, sd>>,
                    np |-> np,
                    out |-> price(self, strike, spot, texp, cp, np, sp, sd)]
        /\ UNCHANGED self

TakeResult == last # NoCall /\ last' = NoCall /\ UNCHANGED self

Next == CallVarMv \/ CallAvgvarMv \/ CallFairStrikeVar \/ CallPrice \/ TakeResult

Spec == Init /\ [][Next]_vars

\* ------------------------------------------------------------- properties
Texp(c) == IF c.op = "price" THEN c.args[3]
           ELSE IF c.op = "fair_strike_var" THEN c.args[1] ELSE c.args[2]
Positive(x) == (IsFin(x) /\ x.v > 0) \/ x = PInf
NonNeg(x)   == (IsFin(x) /\ x.v >= 0) \/ x = PInf
\* the moment computation of the latest price call
LastMoments == price_moments(self, last.args[3], last.np)
\* the latest price call repeated on an object that differs in order only
PriceAtOrder(n) == Outcome([self EXCEPT !.order = n], last)
\* the latest price call repeated on an object that differs in rho only
PriceAtRho(r) == Outcome([self EXCEPT !.rho = r], last)
Without(ev, e) == SelectSeq(ev, LAMBDA x : x # e)

(* C1: whenever avgvar_mv(sigma, texp) returns (it always does for mr > 0 and
   texp > 0), fair_strike_var(texp, None) returns, and its value is exactly
   the mean component avgvar_mv(sigma, texp) returns. *)
C1_FairStrikeEqualsAvgvarMean ==
    (last.op = "fair_strike_var" /\ last.args[2] = None) =>
        LET mv == avgvar_mv(self, self.sigma, last.args[1], last.np)
        IN  mv.err = "none" =>
                /\ last.out.err = "none"
                /\ last.out.ret = <<mv.ret[1]>>

C1_Witness ==
    /\ last.op = "fair_strike_var" /\ last.args[2] = None
    /\ Positive(self.mr) /\ Positive(last.args[1])
    /\ self.sigma # self.theta
    /\ last.out.err = "none"
    /\ last.out.ret[1] # self.theta
    /\ last.out.ret[1] # self.sigma

(* C2: a price call that returns with order = 0 returns exactly the stub's
   price P; one that returns with order = 2 returns the order-0 price of the
   same call plus exactly 0.5*var*D, var being the variance component of
   avgvar_mv(sigma, texp) and D the stub's d2_var. *)
C2_SecondOrderTerm ==
    (last.op = "price" /\ last.out.err = "none") =>
        /\ self.order = 0 => last.out.ret = <<last.args[5]>>
        /\ self.order = 2 =>
              /\ PriceAtOrder(0).err = "none"
              /\ PriceAtOrder(0).ret = <<last.args[5]>>
              /\ last.out.ret =
                    <<FAdd(PriceAtOrder(0).ret[1],
                           FMul(FMul(Half, LastMoments.ret[2]), last.args[6]))>>

C2_Witness ==
    /\ last.op = "price" /\ self.order = 2 /\ last.out.err = "none"
    /\ Positive(self.mr) /\ Positive(last.args[3])
    /\ IsFin(last.out.ret[1])
    /\ last.out.ret # PriceAtOrder(0).ret

(* C3: with order > 2 a price call never returns a price; whenever its moment
   computation returns (always for mr > 0 and texp > 0) the call ends in the
   ValueError raised at line 109, whose message names the requested order. *)
C3_UnsupportedOrder ==
    (last.op = "price" /\ self.order > 2) =>
        /\ last.out.err # "none"
        /\ last.out.ret = <<>>
        /\ LastMoments.err = "none" =>
              /\ last.out.err = "ValueError"
              /\ last.out.arg = Fin(self.order * Unit)

C3_Witness ==
    /\ last.op = "price" /\ self.order = 3
    /\ Positive(self.mr) /\ Positive(last.args[3])
    /\ last.out.err = "ValueError"

(* C4: whenever the moment computation returns (always for mr > 0 and
   texp > 0), a price call with order <= 2 returns without error, with order
   = 1 it returns exactly what the same call returns with order = 0, and the
   second-order term d2_var is evaluated for order = 2 only. *)
C4_OrderOneIsOrderZero ==
    (last.op = "price" /\ LastMoments.err = "none") =>
        /\ self.order <= 2 => last.out.err = "none"
        /\ self.order = 1 => last.out = PriceAtOrder(0)
        /\ self.order = 1 => last.out.ret = <<last.args[5]>>
        /\ (\E i \in 1..Len(last.out.events) : last.out.events[i] = "Bsm.d2_var")
              <=> self.order = 2

C4_Witness ==
    /\ last.op = "price" /\ self.order = 1 /\ last.out.err = "none"
    /\ Positive(self.mr) /\ Positive(last.args[3])
    /\ PriceAtOrder(2).err = "none"
    /\ PriceAtOrder(2).ret # last.out.ret

\* The code has no exception class of its own for invalid parameters: every
\* exception other than the unsupported-order ValueError of line 109 is read
\* as the rejection C5 and C6 speak of.
Rejected(o) == o.err # "none" /\ o.line # 109 /\ o.ret = <<>>

(* C5: fair_strike_var(texp, aa) with aa = 0 is rejected with an
   invalid-parameter error and never returns a value (in particular never an
   infinite or NaN strike); stated for calls whose other inputs are valid
   (mr > 0, texp > 0). *)
C5_ZeroFrequencyRejected ==
    (/\ last.op = "fair_strike_var" /\ IsZero(last.args[2])
     /\ Positive(self.mr) /\ Positive(last.args[1])) => Rejected(last.out)

(* C6: every call with mr <= 0, and every call of avgvar_mv, fair_strike_var
   or price with texp <= 0, is rejected with an invalid-parameter error and
   returns no result (NaN, Inf or otherwise). *)
C6_InvalidInputRejected ==
    (/\ last.op # "none"
     /\ \/ ~Positive(self.mr)
        \/ last.op # "var_mv" /\ ~Positive(Texp(last))) => Rejected(last.out)

(* C7 as stated: for mr > 0, theta >= 0, vov >= 0 and var0 >= 0,
   var_mv(var0, 0) returns exactly (var0, 0). *)
C7_ExactAtZeroStep ==
    (/\ last.op = "var_mv" /\ IsZero(last.args[2])
     /\ Positive(self.mr) /\ NonNeg(self.theta) /\ NonNeg(self.vov)
     /\ NonNeg(last.args[1])) =>
        last.out.ret = <<last.args[1], Fin(0)>>

(* C7 as amended: for mr > 0, theta >= 0, vov >= 0 and var0 >= 0,
   var_mv(var0, 0) returns the variance exactly 0 and the mean
   theta + (var0 - theta) as the floating-point arithmetic rounds it: exactly
   var0 whenever the difference var0 - theta is representable, and otherwise
   within one spacing step of that difference from var0. *)
C7_ZeroStepUpToRounding ==
    (/\ last.op = "var_mv" /\ IsZero(last.args[2])
     /\ Positive(self.mr) /\ NonNeg(self.theta) /\ NonNeg(self.vov)
     /\ NonNeg(last.args[1])) =>
        LET var0 == last.args[1]
            diff == var0.v - self.theta.v
        IN  /\ last.out.err = "none"
            /\ last.out.ret[2] = Fin(0)
            /\ IsFin(last.out.ret[1])
            /\ Representable(diff) => last.out.ret[1] = var0
            /\ Abs(last.out.ret[1].v - var0.v) <= SpacingFrom(Abs(diff), 1)

C7_Witness ==
    /\ last.op = "var_mv" /\ IsZero(last.args[2])
    /\ Positive(self.mr) /\ Positive(self.vov)
    /\ Positive(last.args[1])
    /\ last.args[1] # self.theta
    /\ last.out.ret = <<last.args[1], Fin(0)>>

(* C8: a price call emits the ignored-correlation diagnostic if and only if
   rho is not within np.isclose's tolerance of 0 (in this number format: rho
   is not 0), emits it once and before the moments and the flat-volatility
   price are computed, and the diagnostic does not stop the call: with order
   <= 2 a call whose moment computation returns ends by returning a price. *)
C8_DiagnosticDoesNotBlock ==
    last.op = "price" =>
        LET ev == last.out.events
        IN  /\ (\E i \in 1..Len(ev) : ev[i] = "print") <=> self.rho # Fin(0)
            /\ \A i \in 1..Len(ev) : ev[i] = "print" => i = 1
            /\ Len(ev) >= 2 /\ ev[Len(ev)] \in {"return", "raise"}
            /\ (self.rho # Fin(0) /\ self.order <= 2 /\ LastMoments.err = "none")
                  => /\ last.out.err = "none"
                     /\ Len(last.out.ret) = 1
                     /\ ev[2] = "avgvar_mv"
                     /\ ev[Len(ev)] = "return"

C8_Witness ==
    /\ last.op = "price" /\ self.rho # Fin(0) /\ self.order <= 2
    /\ Positive(self.mr) /\ Positive(last.args[3])
    /\ last.out.events[1] = "print"
    /\ last.out.err = "none"
    /\ IsFin(last.out.ret[1])

(* C9: no call, whether it returns or raises, changes the parameters mr,
   theta, vov, rho, intr, divr, sigma and order; the outcome of a call is the
   function of its arguments and the parameters alone. *)
C9_ParametersUnchanged ==
    [][/\ self' = self
       /\ last'.op # "none" => last'.out = Outcome(self, last')]_vars

C9_Witness ==
    /\ last.op = "price"
    /\ last.out.err = "ZeroDivisionError"
    /\ self.order = 2

(* C10: the outcome of a price call does not depend on rho: the same call on
   an object that differs in rho only returns the same price or raises the
   same error; apart from the diagnostic the two calls do the same. *)
C10_PriceIgnoresRho ==
    last.op = "price" =>
        \A r \in RhoSet :
            LET o == PriceAtRho(r)
            IN  /\ o.ret = last.out.ret
                /\ o.err = last.out.err
                /\ o.arg = last.out.arg
                /\ Without(o.events, "print") = Without(last.out.events, "print")

C10_Witness ==
    /\ last.op = "price" /\ self.rho # Fin(0)
    /\ Positive(self.mr) /\ Positive(last.args[3])
    /\ self.order = 2 /\ last.out.err = "none"
    /\ last.out.ret # <<last.args[5]>>
    /\ PriceAtRho(Fin(0)).events # last.out.events

====
